---- MODULE Spec2Model ----
(***************************************************************************)
(* Model of the excel_handler services: the named-style builder            *)
(* (style_builder.py), the sheet formatter (set_sheet_formatter.py) and    *)
(* the writer (excel_writer.py), over the catalogs of shared/constants.py. *)
(* The openpyxl workbook is modelled by the part of its behaviour the      *)
(* services rely on: the named-style list, the cell grid of a worksheet,   *)
(* its column widths, auto-filter range and freeze-pane anchor.            *)
(***************************************************************************)
EXTENDS Integers, Sequences, FiniteSets, TLC

(***************************************************************************)
(* Bounds of the model.                                                    *)
(***************************************************************************)
\* Largest number of columns of a table drawn as input.
MaxCols == 2
\* Largest number of data rows of a table drawn as input.
MaxRows == 1
\* Largest number of sheets a workbook is grown to.
MaxSheets == 2

(***************************************************************************)
(* Python values: cell values and column labels.                           *)
(***************************************************************************)
None == [t |-> "NoneType", s |-> "", n |-> 0, b |-> FALSE]
PyStr(s) == [t |-> "str", s |-> s, n |-> 0, b |-> FALSE]
PyInt(n) == [t |-> "int", s |-> "", n |-> n, b |-> FALSE]
PyBool(b) == [t |-> "bool", s |-> "", n |-> 0, b |-> b]

\* bool(v): None, "", 0 and False are falsy.
Truthy(v) ==
    CASE v.t = "NoneType" -> FALSE
      [] v.t = "str" -> v.s # ""
      [] v.t = "int" -> v.n # 0
      [] v.t = "bool" -> v.b

RECURSIVE Digits(_)
\* Number of decimal digits of n >= 0.
Digits(n) == IF n < 10 THEN 1 ELSE 1 + Digits(n \div 10)

\* len(str(v)).
StrLen(v) ==
    CASE v.t = "NoneType" -> Len("None")
      [] v.t = "str" -> Len(v.s)
      [] v.t = "int" -> IF v.n < 0 THEN 1 + Digits(-v.n) ELSE Digits(v.n)
      [] v.t = "bool" -> IF v.b THEN Len("True") ELSE Len("False")

\* v or "": the value itself when truthy, the empty string otherwise.
OrEmpty(v) == IF Truthy(v) THEN v ELSE PyStr("")

\* F applied to the value of v, v being evaluated once.
Bind(v, F(_)) == CHOOSE y \in {F(x) : x \in {v}} : TRUE

Max(a, b) == IF a >= b THEN a ELSE b
Min(a, b) == IF a <= b THEN a ELSE b

(***************************************************************************)
(* Catalog entries.  An entry of a catalog is a mapping, or (in a          *)
(* replaced catalog) None or a string.                                     *)
(***************************************************************************)
EmptyMap == [k \in {} |-> 0]
Dict(items) == [kind |-> "dict", items |-> items]
NoneEntry == [kind |-> "NoneType", items |-> EmptyMap]
StrEntry == [kind |-> "str", items |-> EmptyMap]

\* not entry: None and the empty mapping are falsy (the string entry used
\* here is non-empty).
Falsy(e) == e.kind = "NoneType" \/ (e.kind = "dict" /\ DOMAIN e.items = {})

\* key in entry: key membership of a mapping; for the string entry a
\* substring test, which no attribute key passes.
Has(e, key) == e.kind = "dict" /\ key \in DOMAIN e.items

\* entry.get(key, default) of a mapping.
Get(e, key, default) == IF key \in DOMAIN e.items THEN e.items[key] ELSE default

\* Whether entry.get raises AttributeError: only mappings have .get.
GetRaises(e) == e.kind # "dict"

(***************************************************************************)
(* shared/constants.py                                                     *)
(***************************************************************************)
DECLARE_DATA_TYPE_CONFIG ==
    [dated_created |-> "date_time",
     date_modified |-> "date",
     date_checked |-> "date_time",
     date |-> "date_time",
     number_no_decimal |-> "int",
     number_decimal |-> "float",
     currency |-> "currency",
     percentage |-> "percentage"]

MAP_DATA_TYPE_STYLE_NAME_CONFIG ==
    [date |-> "date_style",
     date_time |-> "date_time_style",
     int |-> "int_style",
     float |-> "float_style",
     currency |-> "currency_style",
     percentage |-> "percentage_style",
     default_data_type |-> "default_style"]

\* A catalog is a Python dict: its keys in insertion order, and its values.
DATA_TYPE_STYLE_NAME_CONFIG ==
    [keys |-> <<"date_style", "date_time_style", "int_style", "float_style",
                "currency_style", "percentage_style", "default_style">>,
     val |-> [date_style |-> Dict([format |-> "dd/mm/yyyy"]),
              date_time_style |-> Dict([format |-> "dd/mm/yyyy hh:mm:ss"]),
              int_style |-> Dict([format |-> "#,##0"]),
              float_style |-> Dict([format |-> "#,##0.00"]),
              currency_style |-> Dict([format |-> "\"$\"#,##0;[Red]-#,##0"]),
              percentage_style |-> Dict([format |-> "0.00%"]),
              default_style |-> Dict([format |-> "General"])]]

VISUAL_STYLE_NAME_CONFIG ==
    [keys |-> <<"header_style", "body_style", "auto_adjust_style",
                "alternating_style", "freeze_panes_style", "filter_style">>,
     val |-> [header_style |-> Dict(
                  [font_name |-> "Calibri", font_size |-> 12,
                   font_bold |-> TRUE, font_italic |-> FALSE,
                   font_vertAlign |-> "None", font_underline |-> "none",
                   font_strike |-> FALSE, font_color |-> "FFFFFF",
                   fill_type |-> "solid", fill_start_color |-> "366092",
                   fill_end_color |-> "366092",
                   alignment_horizontal |-> "center",
                   alignment_vertical |-> "center",
                   alignment_wrap_text |-> FALSE]),
              body_style |-> Dict(
                  [font_name |-> "Calibri", font_size |-> 11,
                   font_bold |-> FALSE, font_italic |-> FALSE,
                   font_vertAlign |-> "None", font_underline |-> "none",
                   font_strike |-> FALSE, font_color |-> "000000",
                   fill_type |-> "None", fill_start_color |-> "FFFFFF",
                   fill_end_color |-> "FFFFFF",
                   alignment_horizontal |-> "left",
                   alignment_vertical |-> "top",
                   alignment_wrap_text |-> FALSE]),
              auto_adjust_style |-> Dict(
                  [auto_adjust_width |-> TRUE, max_column_width |-> 60,
                   auto_adjust_height |-> FALSE, max_column_height |-> 15]),
              alternating_style |-> Dict(
                  [alternating_rows |-> TRUE, fill_start_color |-> "F8F9FA",
                   fill_end_color |-> "FFFFFF"]),
              freeze_panes_style |-> Dict(
                  [mode_on |-> TRUE, freeze_cell |-> "B2"]),
              filter_style |-> Dict([mode_on |-> TRUE])]]

\* catalog.get(key): the entry, or None when the key is absent.
Lookup(catalog, key) ==
    IF key \in DOMAIN catalog.val THEN catalog.val[key] ELSE NoneEntry

\* catalog.get(key, {}): the entry, or the empty mapping when absent.
LookupOrEmpty(catalog, key) ==
    IF key \in DOMAIN catalog.val THEN catalog.val[key] ELSE Dict(EmptyMap)

\* The catalog with the entry of one key replaced (or added at the end).
Replaced(catalog, key, e) ==
    [keys |-> IF key \in DOMAIN catalog.val THEN catalog.keys
              ELSE Append(catalog.keys, key),
     val |-> [k \in DOMAIN catalog.val \cup {key} |->
                 IF k = key THEN e ELSE catalog.val[k]]]

\* The catalog without a key.
Without(catalog, key) ==
    [keys |-> SelectSeq(catalog.keys, LAMBDA k : k # key),
     val |-> [k \in DOMAIN catalog.val \ {key} |-> catalog.val[k]]]

(***************************************************************************)
(* style_builder.py                                                        *)
(***************************************************************************)
UnsetFont ==
    [set |-> FALSE, name |-> "", size |-> 0, bold |-> FALSE, italic |-> FALSE,
     vertAlign |-> "", underline |-> "", strike |-> FALSE, color |-> ""]
UnsetFill == [set |-> FALSE, fill_type |-> "", start_color |-> "", end_color |-> ""]
UnsetAlignment ==
    [set |-> FALSE, horizontal |-> "", vertical |-> "", wrap_text |-> FALSE]

\* NamedStyle(name=style_name): nothing set, number format General.
NamedStyle(style_name) ==
    [none |-> FALSE, name |-> style_name, font |-> UnsetFont, fill |-> UnsetFill,
     alignment |-> UnsetAlignment, number_format |-> "General"]

\* The None that _build_named_style returns for a falsy catalog entry.
NoStyle ==
    [none |-> TRUE, name |-> "", font |-> UnsetFont, fill |-> UnsetFill,
     alignment |-> UnsetAlignment, number_format |-> ""]

Font(e) ==
    [set |-> TRUE,
     name |-> Get(e, "font_name", "Calibri"),
     size |-> Get(e, "font_size", 11),
     bold |-> Get(e, "font_bold", FALSE),
     italic |-> Get(e, "font_italic", FALSE),
     vertAlign |-> Get(e, "font_vertAlign", "None"),
     underline |-> Get(e, "font_underline", "none"),
     strike |-> Get(e, "font_strike", FALSE),
     color |-> Get(e, "font_color", "000000")]

PatternFill(e) ==
    [set |-> TRUE,
     fill_type |-> Get(e, "fill_type", "None"),
     start_color |-> Get(e, "fill_start_color", "FFFFFF"),
     end_color |-> Get(e, "fill_end_color", "FFFFFF")]

Alignment(e) ==
    [set |-> TRUE,
     horizontal |-> Get(e, "alignment_horizontal", "left"),
     vertical |-> Get(e, "alignment_vertical", "top"),
     wrap_text |-> Get(e, "alignment_wrap_text", FALSE)]

\* _build_named_style(style_name, style_type) over the catalogs c.
build_named_style(c, style_name, style_type) ==
    IF style_type = "VISUAL_STYLE_NAME_CONFIG"
    THEN LET e == Lookup(c.visual, style_name)
         IN IF Falsy(e) THEN NoStyle
            ELSE [NamedStyle(style_name) EXCEPT
                    !.font = IF Has(e, "font_name") THEN Font(e) ELSE @,
                    !.fill = IF Has(e, "fill_type") THEN PatternFill(e) ELSE @,
                    !.alignment = IF Has(e, "alignment_horizontal")
                                  THEN Alignment(e) ELSE @]
    ELSE IF style_type = "DATA_TYPE_STYLE_NAME_CONFIG"
    THEN LET e == Lookup(c.dataType, style_name)
         IN IF Falsy(e) THEN NoStyle
            ELSE [NamedStyle(style_name) EXCEPT
                    !.number_format = IF Has(e, "format")
                                      THEN Get(e, "format", "General") ELSE @]
    ELSE NamedStyle(style_name)

\* build_bulk_named_style(): one result per key of the visual catalog, then
\* one per key of the data-type catalog; every result is appended.
build_bulk_named_style(c) ==
    [i \in 1..Len(c.visual.keys) |->
        build_named_style(c, c.visual.keys[i], "VISUAL_STYLE_NAME_CONFIG")]
    \o
    [i \in 1..Len(c.dataType.keys) |->
        build_named_style(c, c.dataType.keys[i], "DATA_TYPE_STYLE_NAME_CONFIG")]

(***************************************************************************)
(* The workbook's named styles (openpyxl).                                 *)
(***************************************************************************)
\* The style every new workbook registers, and every new cell carries.
NormalStyle ==
    [NamedStyle("Normal") EXCEPT
        !.font = [set |-> TRUE, name |-> "Calibri", size |-> 11, bold |-> FALSE,
                  italic |-> FALSE, vertAlign |-> "None", underline |-> "None",
                  strike |-> FALSE, color |-> "theme1"]]

\* Workbook() with its default sheet removed (ExcelWriter._create_workbook).
create_workbook == [named_styles |-> <<NormalStyle>>, sheets |-> <<>>]

Names(styles) == {styles[i].name : i \in 1..Len(styles)}

\* wb.add_named_style(item): TypeError for a non-style, ValueError for a name
\* already registered; otherwise the style is appended.
add_named_style(w, item) ==
    IF item.none THEN [wb |-> w, exc |-> "TypeError"]
    ELSE IF item.name \in Names(w.named_styles)
    THEN [wb |-> w, exc |-> "ValueError"]
    ELSE [wb |-> [w EXCEPT !.named_styles = Append(@, item)], exc |-> ""]

RECURSIVE RegisterFrom(_, _, _)
\* The loop of _init_global_styles from position i on: stops at the first
\* item whose registration raises.
RegisterFrom(w, lst, i) ==
    IF i > Len(lst) THEN [wb |-> w, exc |-> ""]
    ELSE Bind(add_named_style(w, lst[i]),
              LAMBDA r : IF r.exc # "" THEN r ELSE RegisterFrom(r.wb, lst, i + 1))

\* _init_global_styles catching the registration error without re-raising.
init_global_styles_swallowing(c, w) ==
    [wb |-> RegisterFrom(w, build_bulk_named_style(c), 1).wb, exc |-> ""]

\* SetSheetFormatter._init_global_styles: build, register each, re-raise.
init_global_styles(c, w) == RegisterFrom(w, build_bulk_named_style(c), 1)

(***************************************************************************)
(* The worksheet (openpyxl): a grid of cells created on first access, the  *)
(* row counter of append, column widths, filter range, freeze anchor.      *)
(***************************************************************************)
Letters == <<"A", "B", "C", "D", "E", "F", "G", "H">>

\* get_column_letter / Cell.column_letter, for the columns the model reaches.
column_letter(col) == Letters[col]

\* create_sheet's worksheet: no cell, no width, no filter, no frozen pane.
Worksheet(title) ==
    [title |-> title, cells |-> [p \in {} |-> 0], current_row |-> 0,
     widths |-> [l \in {} |-> 0], auto_filter_ref |-> "None",
     freeze_panes |-> "None"]

NewCell(value) == [value |-> value, style |-> "Normal"]

\* The grid with cell p holding x.
WithCell(sheet, p, x) ==
    [sheet EXCEPT
        !.cells = [q \in DOMAIN sheet.cells \cup {p} |->
                      IF q = p THEN x ELSE sheet.cells[q]],
        !.current_row = Max(p[1], @)]

\* ws.cell(row, column): the cell is created, empty, when it does not exist.
cell(sheet, row, column) ==
    IF <<row, column>> \in DOMAIN sheet.cells THEN sheet
    ELSE WithCell(sheet, <<row, column>>, NewCell(None))

RECURSIVE AppendFrom(_, _, _, _)
AppendFrom(sheet, row_idx, iterable, col_idx) ==
    IF col_idx > Len(iterable) THEN sheet
    ELSE Bind(WithCell(sheet, <<row_idx, col_idx>>, NewCell(iterable[col_idx])),
              LAMBDA s1 : AppendFrom(s1, row_idx, iterable, col_idx + 1))

\* ws.append(iterable): one cell per item in the row after the current one.
append(sheet, iterable) ==
    [AppendFrom(sheet, sheet.current_row + 1, iterable, 1)
        EXCEPT !.current_row = sheet.current_row + 1]

SetMax(S) == CHOOSE x \in S : \A y \in S : y <= x
SetMin(S) == CHOOSE x \in S : \A y \in S : x <= y

max_row(sheet) ==
    IF DOMAIN sheet.cells = {} THEN 1 ELSE SetMax({p[1] : p \in DOMAIN sheet.cells})
max_column(sheet) ==
    IF DOMAIN sheet.cells = {} THEN 1 ELSE SetMax({p[2] : p \in DOMAIN sheet.cells})
min_row(sheet) ==
    IF DOMAIN sheet.cells = {} THEN 1 ELSE SetMin({p[1] : p \in DOMAIN sheet.cells})
min_column(sheet) ==
    IF DOMAIN sheet.cells = {} THEN 1 ELSE SetMin({p[2] : p \in DOMAIN sheet.cells})

\* ws.dimensions: the used range as text, "A1:A1" for a sheet without cells.
dimensions(sheet) ==
    column_letter(min_column(sheet)) \o ToString(min_row(sheet)) \o ":" \o
    column_letter(max_column(sheet)) \o ToString(max_row(sheet))

\* ws.columns: no column while nothing was written; otherwise columns
\* 1..max_column, each with the cells of rows 1..max_row, created on access.
Columns(sheet) == IF sheet.current_row = 0 THEN {} ELSE 1..max_column(sheet)

WithColumns(sheet) ==
    IF sheet.current_row = 0 THEN sheet
    ELSE LET grid == (1..max_row(sheet)) \X (1..max_column(sheet))
         IN [sheet EXCEPT
                !.cells = [p \in DOMAIN sheet.cells \cup grid |->
                              IF p \in DOMAIN sheet.cells THEN sheet.cells[p]
                              ELSE NewCell(None)],
                !.current_row = Max(max_row(sheet), @)]

\* Cell references that parse (coordinate_to_tuple); others raise.
Coordinates == {column_letter(c) \o ToString(r) : c \in 1..3, r \in 1..3}

\* cell.style = name: ValueError when the workbook has no such named style.
SetStyle(w, sheet, row, column, name) ==
    Bind(cell(sheet, row, column),
         LAMBDA s1 :
            IF name \notin Names(w.named_styles)
            THEN [ws |-> s1, exc |-> "ValueError"]
            ELSE [ws |-> [s1 EXCEPT !.cells[<<row, column>>].style = name],
                  exc |-> ""])

(***************************************************************************)
(* set_sheet_formatter.py                                                  *)
(***************************************************************************)
RECURSIVE ApplyFrom(_, _, _, _, _)
\* The nested loops of _apply_styles over the cells of the range, row by
\* row; the first assignment that raises ends them.
ApplyFrom(w, sheet, range, k, applied_style_name) ==
    IF k > Len(range) THEN [ws |-> sheet, exc |-> ""]
    ELSE Bind(SetStyle(w, sheet, range[k][1], range[k][2], applied_style_name),
              LAMBDA r : IF r.exc # "" THEN r
                         ELSE ApplyFrom(w, r.ws, range, k + 1, applied_style_name))

\* SetSheetFormatter._apply_styles
apply_styles(w, sheet, row_idx, col_idx, num_rows, num_cols, applied_style_name) ==
    IF row_idx < 1 \/ col_idx < 1 THEN [ws |-> sheet, exc |-> "ValueError"]
    ELSE LET nr == Max(num_rows, 0)
             nc == Max(num_cols, 0)
             range == [k \in 1..(nr * nc) |->
                          <<row_idx + ((k - 1) \div nc), col_idx + ((k - 1) % nc)>>]
         IN ApplyFrom(w, sheet, range, 1, applied_style_name)

\* SetSheetFormatter.format_style_header_body
\* format_style_header_body with the body block as tall as the whole range.
format_style_header_body_tall(w, sheet, num_rows, num_cols) ==
    IF num_rows < 1 \/ num_cols < 1 THEN [ws |-> sheet, exc |-> "ValueError"]
    ELSE Bind(apply_styles(w, sheet, 1, 1, 1, num_cols, "header_style"),
              LAMBDA h : IF h.exc # "" THEN h
                         ELSE apply_styles(w, h.ws, 2, 1, num_rows, num_cols,
                                           "body_style"))

\* format_style_header_body rejecting only a range empty in both directions.
format_style_header_body_lenient(w, sheet, num_rows, num_cols) ==
    IF num_rows < 1 /\ num_cols < 1 THEN [ws |-> sheet, exc |-> "ValueError"]
    ELSE Bind(apply_styles(w, sheet, 1, 1, 1, num_cols, "header_style"),
              LAMBDA h : IF h.exc # "" THEN h
                         ELSE apply_styles(w, h.ws, 2, 1, num_rows - 1, num_cols,
                                           "body_style"))

format_style_header_body(w, sheet, num_rows, num_cols) ==
    IF num_rows < 1 \/ num_cols < 1 THEN [ws |-> sheet, exc |-> "ValueError"]
    ELSE Bind(apply_styles(w, sheet, 1, 1, 1, num_cols, "header_style"),
              LAMBDA h : IF h.exc # "" THEN h
                         ELSE apply_styles(w, h.ws, 2, 1, num_rows - 1, num_cols,
                                           "body_style"))

\* The data type declared for a column (line 120).
cfg_data_type(col) ==
    IF col \in DOMAIN DECLARE_DATA_TYPE_CONFIG
    THEN DECLARE_DATA_TYPE_CONFIG[col] ELSE "default_data_type"

\* The resolver falling back on a name no catalog defines.
cfg_style_name_unregistered(col) ==
    IF col \in DOMAIN DECLARE_DATA_TYPE_CONFIG
    THEN MAP_DATA_TYPE_STYLE_NAME_CONFIG[DECLARE_DATA_TYPE_CONFIG[col]]
    ELSE "default"

\* The style name a column resolves to (lines 121-124).
cfg_style_name(col) ==
    IF cfg_data_type(col) \in DOMAIN MAP_DATA_TYPE_STYLE_NAME_CONFIG
    THEN MAP_DATA_TYPE_STYLE_NAME_CONFIG[cfg_data_type(col)] ELSE "default_style"

\* The position of the last occurrence of the name.
col_applied_style_last(column_name_lst, col) ==
    SetMax({i \in 1..Len(column_name_lst) : column_name_lst[i] = col})

\* column_name_lst.index(col) + 1: the position of the first occurrence.
col_applied_style(column_name_lst, col) ==
    SetMin({i \in 1..Len(column_name_lst) : column_name_lst[i] = col})

RECURSIVE TypeFrom(_, _, _, _, _)
\* The loop of format_style_base_on_data_type from the k-th column on.
TypeFrom(w, sheet, column_name_lst, num_rows, k) ==
    IF k > Len(column_name_lst) THEN [ws |-> sheet, exc |-> ""]
    ELSE LET col == column_name_lst[k]
         IN Bind(apply_styles(w, sheet, 2, col_applied_style(column_name_lst, col),
                              num_rows, 1, cfg_style_name(col)),
                 LAMBDA r : IF r.exc # "" THEN r
                            ELSE TypeFrom(w, r.ws, column_name_lst, num_rows, k + 1))

\* SetSheetFormatter.format_style_base_on_data_type
format_style_base_on_data_type(w, sheet, column_name_lst, num_rows) ==
    IF column_name_lst = <<>> THEN [ws |-> sheet, exc |-> ""]
    ELSE IF num_rows < 0 THEN [ws |-> sheet, exc |-> "ValueError"]
    ELSE TypeFrom(w, sheet, column_name_lst, num_rows, 1)

\* max(list, default): the default only for an empty list.
MaxOr(lens, default) == IF lens = {} THEN default ELSE SetMax(lens)

\* The width auto_adjust_cols gives column col of a sheet whose columns
\* were read (lines 255-259).
adjusted_width(sheet, col, max_width) ==
    LET max_len == MaxOr({StrLen(OrEmpty(sheet.cells[p].value)) :
                             p \in {q \in DOMAIN sheet.cells : q[2] = col}}, 5)
    IN Min(max_len + 8, max_width)

\* SetSheetFormatter.auto_adjust_cols; failed: an exception was caught and
\* logged inside the step.
auto_adjust_cols(c, sheet) ==
    LET auto_adjust_config == LookupOrEmpty(c.visual, "auto_adjust_style")
    IN IF GetRaises(auto_adjust_config) THEN [ws |-> sheet, failed |-> TRUE]
       ELSE IF ~Get(auto_adjust_config, "auto_adjust_width", FALSE)
       THEN [ws |-> sheet, failed |-> FALSE]
       ELSE LET max_width == Get(auto_adjust_config, "max_column_width", 60)
                done == {column_letter(col) : col \in Columns(sheet)}
            IN Bind(WithColumns(sheet),
                    LAMBDA s1 :
                       [ws |-> [s1 EXCEPT
                           !.widths = [l \in DOMAIN sheet.widths \cup done |->
                               IF l \in done
                               THEN adjusted_width(s1,
                                        CHOOSE col \in Columns(sheet) :
                                            column_letter(col) = l, max_width)
                               ELSE sheet.widths[l]]],
                        failed |-> FALSE])

\* set_filter_mode reading an absent toggle as on.
set_filter_mode_default_on(c, sheet) ==
    LET filter_config == LookupOrEmpty(c.visual, "filter_style")
    IN IF GetRaises(filter_config) THEN [ws |-> sheet, failed |-> TRUE]
       ELSE IF Get(filter_config, "mode_on", TRUE)
       THEN [ws |-> [sheet EXCEPT !.auto_filter_ref = dimensions(sheet)],
             failed |-> FALSE]
       ELSE [ws |-> sheet, failed |-> FALSE]

\* SetSheetFormatter.set_filter_mode
set_filter_mode(c, sheet) ==
    LET filter_config == LookupOrEmpty(c.visual, "filter_style")
    IN IF GetRaises(filter_config) THEN [ws |-> sheet, failed |-> TRUE]
       ELSE IF Get(filter_config, "mode_on", FALSE)
       THEN [ws |-> [sheet EXCEPT !.auto_filter_ref = dimensions(sheet)],
             failed |-> FALSE]
       ELSE [ws |-> sheet, failed |-> FALSE]

\* SetSheetFormatter.set_freeze_panes_style; assigning ws.freeze_panes parses
\* the reference (a malformed one raises) and "A1" clears the pane.
set_freeze_panes_style(c, sheet) ==
    LET freeze_config == LookupOrEmpty(c.visual, "freeze_panes_style")
    IN IF GetRaises(freeze_config) THEN [ws |-> sheet, failed |-> TRUE]
       ELSE IF Get(freeze_config, "mode_on", FALSE)
       THEN LET freeze_cell == Get(freeze_config, "freeze_cell", "B2")
            IN IF freeze_cell \notin Coordinates
               THEN [ws |-> sheet, failed |-> TRUE]
               ELSE [ws |-> [sheet EXCEPT !.freeze_panes =
                                IF freeze_cell = "A1" THEN "None" ELSE freeze_cell],
                     failed |-> FALSE]
       ELSE [ws |-> sheet, failed |-> FALSE]

\* A table (DataFrame): column labels in order, and rows of values.
len(df) == Len(df.rows)

\* A logged event: a step of the formatter entered on a sheet (position in
\* the workbook), with whether it ended without error.
Event(op, ok) == [op |-> op, sheet |-> 0, ok |-> ok, df |-> <<>>, name |-> ""]

\* The event of add_sheet(df, name): sheet is the new sheet's position.
AddSheetEvent(idx, ok, df, name) ==
    [op |-> "add_sheet", sheet |-> idx, ok |-> ok, df |-> df, name |-> name]

\* run_pipeline with the freeze step left unguarded: its failure propagates.
run_pipeline_unguarded(c, w, sheet, df) ==
    Bind(format_style_header_body(w, sheet, len(df) + 1, Len(df.columns)), LAMBDA s1 :
    IF s1.exc # ""
    THEN [ws |-> s1.ws, exc |-> s1.exc, log |-> <<Event("header_body", FALSE)>>]
    ELSE
    Bind(format_style_base_on_data_type(w, s1.ws, df.columns, len(df)), LAMBDA s2 :
    IF s2.exc # ""
    THEN [ws |-> s2.ws, exc |-> s2.exc,
          log |-> <<Event("header_body", TRUE), Event("type", FALSE)>>]
    ELSE
    Bind(set_filter_mode(c, s2.ws), LAMBDA s3 :
    Bind(auto_adjust_cols(c, s3.ws), LAMBDA s4 :
    Bind(set_freeze_panes_style(c, s4.ws), LAMBDA s5 :
         [ws |-> s5.ws, exc |-> IF s5.failed THEN "ValueError" ELSE "",
          log |-> <<Event("header_body", TRUE), Event("type", TRUE),
                    Event("filter", ~s3.failed), Event("width", ~s4.failed),
                    Event("freeze", ~s5.failed)>>])))))

\* run_pipeline with the first step guarded like a cosmetic one: its failure
\* is swallowed and the remaining steps run.
run_pipeline_swallowing(c, w, sheet, df) ==
    Bind(format_style_header_body(w, sheet, len(df) + 1, Len(df.columns)), LAMBDA s1 :
    Bind(format_style_base_on_data_type(w, s1.ws, df.columns, len(df)), LAMBDA s2 :
    IF s2.exc # ""
    THEN [ws |-> s2.ws, exc |-> s2.exc,
          log |-> <<Event("header_body", s1.exc = ""), Event("type", FALSE)>>]
    ELSE
    Bind(set_filter_mode(c, s2.ws), LAMBDA s3 :
    Bind(auto_adjust_cols(c, s3.ws), LAMBDA s4 :
    Bind(set_freeze_panes_style(c, s4.ws), LAMBDA s5 :
         [ws |-> s5.ws, exc |-> "",
          log |-> <<Event("header_body", s1.exc = ""), Event("type", TRUE),
                    Event("filter", ~s3.failed), Event("width", ~s4.failed),
                    Event("freeze", ~s5.failed)>>])))))

\* run_pipeline sizing the columns before setting the filter.
run_pipeline_reordered(c, w, sheet, df) ==
    Bind(format_style_header_body(w, sheet, len(df) + 1, Len(df.columns)), LAMBDA s1 :
    IF s1.exc # ""
    THEN [ws |-> s1.ws, exc |-> s1.exc, log |-> <<Event("header_body", FALSE)>>]
    ELSE
    Bind(format_style_base_on_data_type(w, s1.ws, df.columns, len(df)), LAMBDA s2 :
    IF s2.exc # ""
    THEN [ws |-> s2.ws, exc |-> s2.exc,
          log |-> <<Event("header_body", TRUE), Event("type", FALSE)>>]
    ELSE
    Bind(auto_adjust_cols(c, s2.ws), LAMBDA s3 :
    Bind(set_filter_mode(c, s3.ws), LAMBDA s4 :
    Bind(set_freeze_panes_style(c, s4.ws), LAMBDA s5 :
         [ws |-> s5.ws, exc |-> "",
          log |-> <<Event("header_body", TRUE), Event("type", TRUE),
                    Event("width", ~s3.failed), Event("filter", ~s4.failed),
                    Event("freeze", ~s5.failed)>>])))))

\* run_pipeline styling by type before styling header and body.
run_pipeline_type_first(c, w, sheet, df) ==
    Bind(format_style_base_on_data_type(w, sheet, df.columns, len(df)), LAMBDA s1 :
    IF s1.exc # ""
    THEN [ws |-> s1.ws, exc |-> s1.exc, log |-> <<Event("type", FALSE)>>]
    ELSE
    Bind(format_style_header_body(w, s1.ws, len(df) + 1, Len(df.columns)), LAMBDA s2 :
    IF s2.exc # ""
    THEN [ws |-> s2.ws, exc |-> s2.exc,
          log |-> <<Event("type", TRUE), Event("header_body", FALSE)>>]
    ELSE
    Bind(set_filter_mode(c, s2.ws), LAMBDA s3 :
    Bind(auto_adjust_cols(c, s3.ws), LAMBDA s4 :
    Bind(set_freeze_panes_style(c, s4.ws), LAMBDA s5 :
         [ws |-> s5.ws, exc |-> "",
          log |-> <<Event("type", TRUE), Event("header_body", TRUE),
                    Event("filter", ~s3.failed), Event("width", ~s4.failed),
                    Event("freeze", ~s5.failed)>>])))))

\* SetSheetFormatter.run_pipeline: the five steps in order; an exception of
\* the first two is logged and re-raised, the last three log their own.
\* log lists the steps entered, each with whether it ended without error.
run_pipeline(c, w, sheet, df) ==
    LET col_names == df.columns
        num_rows == len(df)
        num_cols == Len(df.columns)
    IN Bind(format_style_header_body(w, sheet, num_rows + 1, num_cols), LAMBDA s1 :
       IF s1.exc # ""
       THEN [ws |-> s1.ws, exc |-> s1.exc, log |-> <<Event("header_body", FALSE)>>]
       ELSE
       Bind(format_style_base_on_data_type(w, s1.ws, col_names, num_rows), LAMBDA s2 :
       IF s2.exc # ""
       THEN [ws |-> s2.ws, exc |-> s2.exc,
             log |-> <<Event("header_body", TRUE), Event("type", FALSE)>>]
       ELSE
       Bind(set_filter_mode(c, s2.ws), LAMBDA s3 :
       Bind(auto_adjust_cols(c, s3.ws), LAMBDA s4 :
       Bind(set_freeze_panes_style(c, s4.ws), LAMBDA s5 :
            [ws |-> s5.ws, exc |-> "",
             log |-> <<Event("header_body", TRUE), Event("type", TRUE),
                       Event("filter", ~s3.failed), Event("width", ~s4.failed),
                       Event("freeze", ~s5.failed)>>])))))

(***************************************************************************)
(* excel_writer.py                                                         *)
(***************************************************************************)
Titles(w) == {w.sheets[i].title : i \in 1..Len(w.sheets)}

\* create_sheet's avoid_duplicate_name: a title already in use gets the
\* next number after the highest one used with it.
avoid_duplicate_name(names, value) ==
    IF value \notin names THEN value
    ELSE LET counts == {n \in 1..9 : (value \o ToString(n)) \in names}
             highest == IF counts = {} THEN 0 ELSE SetMax(counts)
         IN value \o ToString(highest + 1)

\* dataframe_to_rows(df, index=False, header=True): the labels, then the rows.
dataframe_to_rows(df) ==
    <<[j \in 1..Len(df.columns) |-> PyStr(df.columns[j])]>> \o df.rows

RECURSIVE WriteRows(_, _, _)
WriteRows(sheet, rows, k) ==
    IF k > Len(rows) THEN sheet
    ELSE Bind(append(sheet, rows[k]), LAMBDA s1 : WriteRows(s1, rows, k + 1))

\* ExcelWriter.add_sheet: the sheet is created last in the workbook and the
\* table written into it; idx is its position.
add_sheet(w, df, sheet_name) ==
    IF sheet_name = "" THEN [wb |-> w, idx |-> 0, exc |-> "ValueError"]
    ELSE LET title == avoid_duplicate_name(Titles(w), sheet_name)
             sheet == WriteRows(Worksheet(title), dataframe_to_rows(df), 1)
         IN [wb |-> [w EXCEPT !.sheets = Append(@, sheet)],
             idx |-> Len(w.sheets) + 1, exc |-> ""]

At(i, events) == [k \in 1..Len(events) |-> [events[k] EXCEPT !.sheet = i]]

\* ExcelWriter.format_sheet: the formatter's pipeline on sheet idx of the
\* workbook; what the pipeline did to the sheet stays done when it raises.
format_sheet(c, w, idx, df) ==
    Bind(run_pipeline(c, w, w.sheets[idx], df),
         LAMBDA r : [wb |-> [w EXCEPT !.sheets[idx] = r.ws], exc |-> r.exc,
                     log |-> At(idx, r.log)])

\* ExcelWriter.save: io_ok is whether the file system accepts the write; a
\* workbook without a sheet cannot be written.  Every failure is re-raised
\* as ExcelFileNotFoundError.
save(w, d, io_ok) ==
    IF io_ok /\ Len(w.sheets) > 0
    THEN [disk |-> w.sheets, exc |-> "", log |-> <<Event("save", TRUE)>>]
    ELSE [disk |-> d, exc |-> "ExcelFileNotFoundError",
          log |-> <<Event("save", FALSE)>>]

\* sheet_name[i] if sheet_name else f"Sheet{i+1}", for the i-th table
\* counted from 1; sheet_name is None (given = FALSE) or a list.
SheetNameFor(sheet_name, i) ==
    IF sheet_name.given /\ sheet_name.names # <<>>
    THEN IF i <= Len(sheet_name.names)
         THEN [name |-> sheet_name.names[i], exc |-> ""]
         ELSE [name |-> "", exc |-> "IndexError"]
    ELSE [name |-> "Sheet" \o ToString(i), exc |-> ""]

RECURSIVE ExportFrom(_, _, _, _, _, _)
\* The loop of export_pipeline from the i-th table on.
ExportFrom(c, w, dfs, sheet_name, i, events) ==
    IF i > Len(dfs) THEN [wb |-> w, exc |-> "", log |-> events]
    ELSE LET n == SheetNameFor(sheet_name, i)
         IN IF n.exc # "" THEN [wb |-> w, exc |-> n.exc, log |-> events]
            ELSE
            Bind(add_sheet(w, dfs[i], n.name), LAMBDA a :
            IF a.exc # ""
            THEN [wb |-> w, exc |-> a.exc,
                  log |-> Append(events, AddSheetEvent(0, FALSE, dfs[i], n.name))]
            ELSE
            Bind(format_sheet(c, a.wb, a.idx, dfs[i]), LAMBDA f :
            Bind(Append(events, AddSheetEvent(a.idx, TRUE, dfs[i], n.name)) \o f.log,
                 LAMBDA done :
            IF f.exc # "" THEN [wb |-> f.wb, exc |-> f.exc, log |-> done]
            ELSE ExportFrom(c, f.wb, dfs, sheet_name, i + 1, done))))

\* export_pipeline testing file_name only when it is about to save.
export_pipeline_late_check(c, w, d, file_name, dfs, sheet_name, io_ok) ==
    Bind(ExportFrom(c, w, dfs, sheet_name, 1, <<>>), LAMBDA r :
    IF r.exc # "" THEN [wb |-> r.wb, disk |-> d, exc |-> r.exc, log |-> r.log]
    ELSE IF file_name = ""
    THEN [wb |-> r.wb, disk |-> d, exc |-> "ConfigError", log |-> r.log]
    ELSE Bind(save(r.wb, d, io_ok), LAMBDA sv :
         [wb |-> r.wb, disk |-> sv.disk, exc |-> sv.exc, log |-> r.log \o sv.log]))

\* export_pipeline saving in a finally clause: also when the loop raised.
export_pipeline_always_saving(c, w, d, file_name, dfs, sheet_name, io_ok) ==
    IF file_name = "" THEN [wb |-> w, disk |-> d, exc |-> "ConfigError", log |-> <<>>]
    ELSE Bind(ExportFrom(c, w, dfs, sheet_name, 1, <<>>), LAMBDA r :
         Bind(save(r.wb, d, io_ok), LAMBDA sv :
              [wb |-> r.wb, disk |-> sv.disk,
               exc |-> IF r.exc # "" THEN r.exc ELSE sv.exc,
               log |-> r.log \o sv.log]))

\* export_pipeline starting every call from a workbook without sheets.
export_pipeline_resetting(c, w, d, file_name, dfs, sheet_name, io_ok) ==
    IF file_name = "" THEN [wb |-> w, disk |-> d, exc |-> "ConfigError", log |-> <<>>]
    ELSE Bind(ExportFrom(c, [w EXCEPT !.sheets = <<>>], dfs, sheet_name, 1, <<>>),
              LAMBDA r :
         IF r.exc # "" THEN [wb |-> r.wb, disk |-> d, exc |-> r.exc, log |-> r.log]
         ELSE Bind(save(r.wb, d, io_ok), LAMBDA sv :
              [wb |-> r.wb, disk |-> sv.disk, exc |-> sv.exc, log |-> r.log \o sv.log]))

\* ExcelWriter.export_pipeline
export_pipeline(c, w, d, file_name, dfs, sheet_name, io_ok) ==
    IF file_name = "" THEN [wb |-> w, disk |-> d, exc |-> "ConfigError", log |-> <<>>]
    ELSE Bind(ExportFrom(c, w, dfs, sheet_name, 1, <<>>), LAMBDA r :
         IF r.exc # "" THEN [wb |-> r.wb, disk |-> d, exc |-> r.exc, log |-> r.log]
         ELSE Bind(save(r.wb, d, io_ok), LAMBDA sv :
              [wb |-> r.wb, disk |-> sv.disk, exc |-> sv.exc, log |-> r.log \o sv.log]))

(***************************************************************************)
(* Inputs.                                                                 *)
(***************************************************************************)
\* Catalogs in force.  The shipped ones; those in which a cosmetic step
\* fails (a non-mapping entry, a malformed freeze cell); one with an empty
\* entry; one with a style name in both catalogs; for the formatter called
\* directly, those with the cosmetic toggles off or absent.
Shipped == [visual |-> VISUAL_STYLE_NAME_CONFIG, dataType |-> DATA_TYPE_STYLE_NAME_CONFIG]

FilterCfgs == {Dict([mode_on |-> TRUE]), StrEntry}
AdjustCfgs == {VISUAL_STYLE_NAME_CONFIG.val["auto_adjust_style"], StrEntry}
FreezeCfgs == {Dict([mode_on |-> TRUE, freeze_cell |-> "B2"]),
               Dict([mode_on |-> TRUE, freeze_cell |-> "B"])}

Cosmetic(fi, ad, fr) ==
    [Shipped EXCEPT !.visual =
        Replaced(Replaced(Replaced(@, "filter_style", fi), "auto_adjust_style", ad),
                 "freeze_panes_style", fr)]

TogglesOff ==
    Cosmetic(Dict([mode_on |-> FALSE]),
             Dict([auto_adjust_width |-> FALSE, max_column_width |-> 60]),
             Dict([mode_on |-> FALSE, freeze_cell |-> "B2"]))

TogglesAbsent ==
    [Shipped EXCEPT !.visual =
        Without(Replaced(Replaced(@, "auto_adjust_style", Dict([max_column_width |-> 60])),
                         "freeze_panes_style", Dict([freeze_cell |-> "B2"])),
                "filter_style")]

EmptyEntry == [Shipped EXCEPT !.visual = Replaced(@, "alternating_style", Dict(EmptyMap))]

SharedName ==
    [Shipped EXCEPT !.dataType =
        Replaced(@, "header_style", Dict([format |-> "General"]))]

Configs ==
    {Cosmetic(fi, ad, fr) : fi \in FilterCfgs, ad \in AdjustCfgs, fr \in FreezeCfgs}
    \cup {EmptyEntry, SharedName}

\* Catalogs under which the direct formatter calls are explored.
FormatterConfigs == {Shipped, TogglesOff, TogglesAbsent}

\* Column labels and cell values of the tables the formatter is called on.
Labels == {"", "number_decimal"}
Values == {None, PyBool(FALSE), PyStr("Alice")}

ColumnLists == UNION {[1..k -> Labels] : k \in 0..MaxCols}

Tables ==
    UNION {{[columns |-> cols, rows |-> rows] :
               rows \in UNION {[1..n -> [1..Len(cols) -> Values]] : n \in 0..MaxRows}} :
           cols \in ColumnLists}

\* The tables the writer is given: the two of the module's demonstration,
\* one without columns, one with a repeated label.
People ==
    [columns |-> <<"Name", "Age", "City">>,
     rows |-> <<<<PyStr("Alice"), PyInt(25), PyStr("New York")>>,
                <<PyStr("Bob"), PyInt(30), PyStr("London")>>,
                <<PyStr("Charlie"), PyInt(35), PyStr("Paris")>>>>]
Products ==
    [columns |-> <<"Product", "number_decimal", "number_no_decimal">>,
     rows |-> <<<<PyStr("Laptop"), PyInt(9909), PyInt(15430)>>,
                <<PyStr("Phone"), PyInt(0), PyInt(25)>>,
                <<PyStr("Tablet"), PyInt(1), PyInt(15)>>>>]
NoColumns == [columns |-> <<>>, rows |-> <<<<>>>>]
Repeated ==
    [columns |-> <<"number_decimal", "number_decimal">>,
     rows |-> <<<<PyInt(7), PyInt(8)>>>>]

ExportTables == {People, Products, NoColumns, Repeated}

RECURSIVE SeqsUpTo(_, _)
\* The sequences over S of length at most n.
SeqsUpTo(S, n) ==
    IF n = 0 THEN {<<>>}
    ELSE LET shorter == SeqsUpTo(S, n - 1)
         IN shorter \cup {Append(q, x) : q \in {r \in shorter : Len(r) = n - 1}, x \in S}

SheetNameLists ==
    {[given |-> FALSE, names |-> <<>>], [given |-> TRUE, names |-> <<>>],
     [given |-> TRUE, names |-> <<"People">>],
     [given |-> TRUE, names |-> <<"People", "Products">>]}

FileNames == {"", "demo_output.xlsx"}

VARIABLES
    cfg,        \* the two style catalogs in force: [visual, dataType]
    wb,         \* the workbook: [named_styles, sheets]
    writer,     \* "none" | "ready" | "failed": the ExcelWriter's construction
    call,       \* the last call: its name, the workbook and the disk before it
    exc,        \* exception that left the last call, "" when it returned
    log,        \* the steps of the last call, in order, with their arguments
    disk        \* sheets of the document as last persisted

vars == <<cfg, wb, writer, call, exc, log, disk>>

(***************************************************************************)
(* The writer: construction, a second formatter on its workbook, exports.  *)
(***************************************************************************)
Init ==
    /\ cfg \in Configs
    /\ wb = create_workbook
    /\ writer = "none"
    /\ call = [op |-> "none"]
    /\ exc = ""
    /\ log = <<>>
    /\ disk = <<>>

\* ExcelWriter(): the workbook is created and the formatter registers the
\* styles in it; an exception of the registration leaves no writer.
ExcelWriterInit ==
    /\ writer = "none"
    /\ LET r == init_global_styles(cfg, create_workbook)
       IN /\ wb' = r.wb
          /\ exc' = r.exc
          /\ writer' = IF r.exc = "" THEN "ready" ELSE "failed"
    /\ call' = [op |-> "ExcelWriter", before |-> wb]
    /\ log' = <<>>
    /\ UNCHANGED <<cfg, disk>>

\* SetSheetFormatter(writer.workbook): another formatter on the workbook.
SetSheetFormatterInit ==
    /\ writer = "ready"
    /\ call.op # "SetSheetFormatter"
    /\ LET r == init_global_styles(cfg, wb)
       IN /\ wb' = r.wb
          /\ exc' = r.exc
    /\ call' = [op |-> "SetSheetFormatter", before |-> wb]
    /\ log' = <<>>
    /\ UNCHANGED <<cfg, writer, disk>>

\* writer.export_pipeline(file_name, dfs, sheet_name)
ExportPipeline ==
    /\ writer = "ready"
    /\ \E file_name \in FileNames, sheet_name \in SheetNameLists,
          dfs \in SeqsUpTo(ExportTables, MaxSheets - Len(wb.sheets)) :
          \E r \in {export_pipeline(cfg, wb, disk, file_name, dfs, sheet_name, TRUE)} :
             /\ wb' = r.wb
             /\ disk' = r.disk
             /\ exc' = r.exc
             /\ log' = r.log
             /\ call' = [op |-> "export_pipeline", file_name |-> file_name,
                         before |-> wb, disk |-> disk]
    /\ UNCHANGED <<cfg, writer>>

Next == ExcelWriterInit \/ SetSheetFormatterInit \/ ExportPipeline

Spec == Init /\ [][Next]_vars

(***************************************************************************)
(* The formatter called directly: the workbook of a new writer holds one   *)
(* sheet, written from a table by add_sheet, and one method of the         *)
(* formatter is called on it.                                              *)
(***************************************************************************)
InitFormatter ==
    /\ cfg \in FormatterConfigs
    /\ writer = "ready"
    /\ \E df \in Tables :
          /\ wb = add_sheet(init_global_styles(cfg, create_workbook).wb, df, "Sheet1").wb
          /\ log = <<AddSheetEvent(1, TRUE, df, "Sheet1")>>
    /\ call = [op |-> "add_sheet"]
    /\ exc = ""
    /\ disk = <<>>

\* The table the sheet was written from.
Table == log[1].df

\* The outcome r of a formatter method on the sheet: what it did to the
\* sheet stays done when it raises.
Returned(r, c) ==
    /\ wb' = [wb EXCEPT !.sheets[1] = r.ws]
    /\ exc' = r.exc
    /\ call' = c
    /\ UNCHANGED <<cfg, writer, log, disk>>

\* formatter.format_style_header_body(ws, num_rows, num_cols)
FormatStyleHeaderBody ==
    /\ call.op = "add_sheet"
    /\ \E num_rows \in 0..(MaxRows + 2), num_cols \in 0..(MaxCols + 1) :
          Returned(format_style_header_body(wb, wb.sheets[1], num_rows, num_cols),
                   [op |-> "format_style_header_body", num_rows |-> num_rows,
                    num_cols |-> num_cols, before |-> wb.sheets[1]])

\* formatter.format_style_base_on_data_type(ws, list(df.columns), num_rows)
FormatStyleBaseOnDataType ==
    /\ call.op = "add_sheet"
    /\ \E num_rows \in (-1)..(MaxRows + 1) :
          Returned(format_style_base_on_data_type(wb, wb.sheets[1], Table.columns,
                                                  num_rows),
                   [op |-> "format_style_base_on_data_type",
                    column_name_lst |-> Table.columns, num_rows |-> num_rows,
                    before |-> wb.sheets[1]])

Cosmetic3(r, op) ==
    Returned([ws |-> r.ws, exc |-> ""],
             [op |-> op, failed |-> r.failed, before |-> wb.sheets[1]])

\* formatter.set_filter_mode(ws)
SetFilterMode ==
    /\ call.op = "add_sheet"
    /\ Cosmetic3(set_filter_mode(cfg, wb.sheets[1]), "set_filter_mode")

\* formatter.auto_adjust_cols(ws)
AutoAdjustCols ==
    /\ call.op = "add_sheet"
    /\ Cosmetic3(auto_adjust_cols(cfg, wb.sheets[1]), "auto_adjust_cols")

\* formatter.set_freeze_panes_style(ws)
SetFreezePanesStyle ==
    /\ call.op = "add_sheet"
    /\ Cosmetic3(set_freeze_panes_style(cfg, wb.sheets[1]), "set_freeze_panes_style")

\* formatter.run_pipeline(ws, df)
RunPipeline ==
    /\ call.op = "add_sheet"
    /\ \E r \in {run_pipeline(cfg, wb, wb.sheets[1], Table)} :
          /\ wb' = [wb EXCEPT !.sheets[1] = r.ws]
          /\ exc' = r.exc
          /\ log' = log \o At(1, r.log)
          /\ call' = [op |-> "run_pipeline", before |-> wb.sheets[1]]
          /\ UNCHANGED <<cfg, writer, disk>>

NextFormatter ==
    \/ FormatStyleHeaderBody
    \/ FormatStyleBaseOnDataType
    \/ SetFilterMode
    \/ AutoAdjustCols
    \/ SetFreezePanesStyle
    \/ RunPipeline

SpecFormatter == InitFormatter /\ [][NextFormatter]_vars

(***************************************************************************)
(* One export_pipeline call, with its arguments on record, on a writer     *)
(* that is new or has exported the demonstration's second table before.    *)
(***************************************************************************)
\* The catalogs under which the writer's construction succeeds.
ReadyConfigs == {c \in Configs : init_global_styles(c, create_workbook).exc = ""}

NoSheetName == [given |-> FALSE, names |-> <<>>]

InitExport ==
    /\ cfg \in ReadyConfigs
    /\ writer = "ready"
    /\ \E prior \in {<<>>, <<Products>>} :
          \E r \in {export_pipeline(cfg, init_global_styles(cfg, create_workbook).wb,
                                    <<>>, "demo_output.xlsx", prior, NoSheetName, TRUE)} :
             /\ wb = r.wb
             /\ disk = r.disk
    /\ call = [op |-> "none"]
    /\ exc = ""
    /\ log = <<>>

\* writer.export_pipeline(file_name, dfs, sheet_name); io_ok: the file can
\* be written.
ExportOnce ==
    /\ call.op = "none"
    /\ \E file_name \in FileNames, sheet_name \in SheetNameLists, io_ok \in BOOLEAN,
          dfs \in SeqsUpTo(ExportTables, MaxSheets - Len(wb.sheets)) :
          \E r \in {export_pipeline(cfg, wb, disk, file_name, dfs, sheet_name, io_ok)} :
             /\ wb' = r.wb
             /\ disk' = r.disk
             /\ exc' = r.exc
             /\ log' = r.log
             /\ call' = [op |-> "export_pipeline", file_name |-> file_name,
                         dfs |-> dfs, sheet_name |-> sheet_name, io_ok |-> io_ok,
                         before |-> wb, disk |-> disk]
    /\ UNCHANGED <<cfg, writer>>

NextExport == ExportOnce

SpecExport == InitExport /\ [][NextExport]_vars

(***************************************************************************)
(* The reader (excel_reader.py).                                           *)
(***************************************************************************)
\* The strings of the reader's column labels, in the order of str.__lt__.
Alphabetical == <<"id", "phone", "status">>

\* sorted(s) of a set of labels: strings in alphabetical order, integers
\* in numeric order; comparing a string with an integer raises TypeError.
sorted(s) ==
    IF \E x \in s, y \in s : x.t # y.t THEN [exc |-> "TypeError", lst |-> <<>>]
    ELSE IF \A x \in s : x.t = "str"
    THEN [exc |-> "", lst |-> SelectSeq([i \in 1..Len(Alphabetical) |->
                                            PyStr(Alphabetical[i])],
                                       LAMBDA x : x \in s)]
    ELSE LET lo == SetMin({x.n : x \in s} \cup {0})
             hi == SetMax({x.n : x \in s} \cup {0})
         IN [exc |-> "", lst |-> SelectSeq([i \in 1..(hi - lo + 1) |-> PyInt(lo + i - 1)],
                                           LAMBDA x : x \in s)]

\* set(lst)
set(lst) == {lst[i] : i \in 1..Len(lst)}

\* ExcelReader._validate_columns: the message of the ValidationError is
\* built from sorted(missing_cols) and sorted(available_cols), in this
\* order, before the error is raised.
validate_columns(required_columns, df) ==
    IF required_columns = <<>> THEN [exc |-> "", message |-> <<>>]
    ELSE LET available_cols == set(df.columns)
             required_set == set(required_columns)
             missing_cols == required_set \ available_cols
         IN IF missing_cols = {} THEN [exc |-> "", message |-> <<>>]
            ELSE IF sorted(missing_cols).exc # ""
            THEN [exc |-> sorted(missing_cols).exc, message |-> <<>>]
            ELSE IF sorted(available_cols).exc # ""
            THEN [exc |-> sorted(available_cols).exc, message |-> <<>>]
            ELSE [exc |-> "ValidationError",
                  message |-> <<[missing |-> sorted(missing_cols).lst,
                                 available |-> sorted(available_cols).lst]>>]

\* ExcelReader.__init__: required_columns or []
ExcelReader(file, required_columns) ==
    [file |-> file,
     required_columns |-> IF required_columns.given THEN required_columns.names
                          ELSE <<>>]

\* ExcelReader.read on a file that is missing, unreadable or holds a table.
read(reader) ==
    IF reader.file.state = "missing"
    THEN [exc |-> "ExcelFileNotFoundError", message |-> <<>>, returned |-> FALSE]
    ELSE IF reader.file.state = "unreadable"
    THEN [exc |-> "ExcelFileNotFoundError", message |-> <<>>, returned |-> FALSE]
    ELSE Bind(validate_columns(reader.required_columns, reader.file.df), LAMBDA v :
              [exc |-> v.exc, message |-> v.message, returned |-> v.exc = ""])

\* The labels of a sheet read by pandas: text headers are strings, a
\* numeric header cell is an integer.
ReaderLabels == {PyStr("id"), PyStr("phone"), PyInt(2024)}

RECURSIVE DistinctSeqs(_, _)
\* The sequences without repetition over S of length at most n
\* (read_excel renames a repeated header).
DistinctSeqs(S, n) ==
    IF n = 0 THEN {<<>>}
    ELSE LET shorter == DistinctSeqs(S, n - 1)
         IN shorter \cup UNION {{Append(q, x) : x \in S \ set(q)} :
                                   q \in {r \in shorter : Len(r) = n - 1}}

Files ==
    {[state |-> "missing"], [state |-> "unreadable"]}
    \cup {[state |-> "ok", df |-> [columns |-> cols, rows |-> <<>>]] :
             cols \in DistinctSeqs(ReaderLabels, MaxCols)}

RequiredLists ==
    {[given |-> FALSE, names |-> <<>>]}
    \cup {[given |-> TRUE, names |-> q] :
             q \in SeqsUpTo({PyStr(Alphabetical[i]) : i \in 1..Len(Alphabetical)},
                            MaxCols)}

\* reader = ExcelReader(file_path, required_columns)
InitReader ==
    /\ cfg = Shipped
    /\ wb = create_workbook
    /\ writer = "none"
    /\ disk = <<>>
    /\ exc = ""
    /\ log = <<>>
    /\ \E file \in Files, required_columns \in RequiredLists :
          call = [op |-> "ExcelReader", reader |-> ExcelReader(file, required_columns)]

\* reader.read()
Read ==
    /\ call.op = "ExcelReader"
    /\ \E r \in {read(call.reader)} :
          /\ exc' = r.exc
          /\ log' = r.message
          /\ call' = [op |-> "read", reader |-> call.reader, returned |-> r.returned]
    /\ UNCHANGED <<cfg, wb, writer, disk>>

NextReader == Read

SpecReader == InitReader /\ [][NextReader]_vars

(***************************************************************************)
(* Properties.                                                             *)
(***************************************************************************)
Export == call.op = "export_pipeline"

StructuralOps == {"header_body", "type"}
CosmeticOps == {"filter", "width", "freeze"}

\* The events of the log at positions k+1..k+3 are the three cosmetic steps
\* of the sheet of event k, in order.
CosmeticAfter(k) ==
    /\ k + 3 <= Len(log)
    /\ log[k + 1].op = "filter" /\ log[k + 1].sheet = log[k].sheet
    /\ log[k + 2].op = "width" /\ log[k + 2].sheet = log[k].sheet
    /\ log[k + 3].op = "freeze" /\ log[k + 3].sheet = log[k].sheet

\* C1: in an export, every sheet whose two structural steps succeeded has
\* all three cosmetic steps attempted, whichever of them fail; the pipeline
\* then returns and the export goes on with the next table or with save: a
\* call whose structural steps and sheet additions all succeeded, and whose
\* tables all had a name, invokes save.
C1_CosmeticFailuresIsolated ==
    Export =>
      /\ \A k \in 1..Len(log) :
            (log[k].op = "type" /\ log[k].ok) =>
               /\ CosmeticAfter(k)
               /\ k + 3 < Len(log) => log[k + 4].op \in {"add_sheet", "save"}
               /\ k + 3 = Len(log) => exc = "IndexError"
      /\ (/\ call.file_name # ""
          /\ exc # "IndexError"
          /\ \A k \in 1..Len(log) :
                log[k].op \in StructuralOps \cup {"add_sheet"} => log[k].ok)
         => log # <<>> /\ log[Len(log)].op = "save"

\* Witness of C1: an export in which all three cosmetic steps of a sheet
\* failed and the workbook was saved.
C1_Witness ==
    /\ Export
    /\ exc = ""
    /\ \E k \in 1..Len(log) :
          /\ log[k].op = "type"
          /\ CosmeticAfter(k)
          /\ ~log[k + 1].ok /\ ~log[k + 2].ok /\ ~log[k + 3].ok
    /\ log[Len(log)] = Event("save", TRUE)
    /\ disk = wb.sheets

Styled(sheet, name) == {p \in DOMAIN sheet.cells : sheet.cells[p].style = name}

\* C3: after format_style_header_body(ws, num_rows, num_cols) on a freshly
\* written sheet with num_rows >= 1 and num_cols >= 1, the cells carrying
\* header_style are exactly row 1, columns 1..num_cols, those carrying
\* body_style are exactly rows 2..num_rows, columns 1..num_cols (none when
\* num_rows = 1), and everything outside the two blocks is as it was.
C3_HeaderBodyRanges ==
    (/\ call.op = "format_style_header_body"
     /\ call.num_rows >= 1 /\ call.num_cols >= 1) =>
       LET sheet == wb.sheets[1]
           block == (1..call.num_rows) \X (1..call.num_cols)
       IN /\ exc = ""
          /\ Styled(sheet, "header_style") = {1} \X (1..call.num_cols)
          /\ Styled(sheet, "body_style") = (2..call.num_rows) \X (1..call.num_cols)
          /\ DOMAIN sheet.cells \ block = DOMAIN call.before.cells \ block
          /\ \A p \in DOMAIN sheet.cells \ block : sheet.cells[p] = call.before.cells[p]
          /\ \A p \in DOMAIN call.before.cells :
                sheet.cells[p].value = call.before.cells[p].value
          /\ [sheet EXCEPT !.cells = <<>>, !.current_row = 0]
               = [call.before EXCEPT !.cells = <<>>, !.current_row = 0]

\* Witness of C3: the call styled a header row and a body block that is
\* narrower than the sheet, so that written cells lie outside it.
C3_Witness ==
    /\ call.op = "format_style_header_body"
    /\ exc = ""
    /\ call.num_rows = 2 /\ call.num_cols = 1
    /\ Styled(wb.sheets[1], "body_style") = {<<2, 1>>}
    /\ Styled(wb.sheets[1], "Normal") = {<<1, 2>>, <<2, 2>>}

\* Column names the resolver is asked about: every declared name, the
\* labels of the tables and names no catalog declares.
ColumnNames ==
    DOMAIN DECLARE_DATA_TYPE_CONFIG \cup Labels
    \cup {"Name", "Age", "City", "Product", "float", "default_style"}

\* C4: in a workbook whose styles the registry build registered, the
\* resolver returns for every column name a registered style name.
C4_ResolverTotal ==
    writer = "ready" =>
       \A col \in ColumnNames : cfg_style_name(col) \in Names(wb.named_styles)

\* Witness of C4: an export styled a declared column with the name resolved
\* for it and an undeclared column with the fallback name.
C4_Witness ==
    /\ Export /\ exc = "" /\ writer = "ready"
    /\ \E i \in 1..Len(wb.sheets) :
          /\ Styled(wb.sheets[i], cfg_style_name("number_no_decimal")) # {}
          /\ Styled(wb.sheets[i], cfg_style_name("Product")) # {}
          /\ cfg_style_name("number_no_decimal") # cfg_style_name("Product")

\* The number format a cell shows: that of the named style it carries.
NumberFormatOf(w, name) ==
    (CHOOSE st \in {w.named_styles[i] : i \in 1..Len(w.named_styles)} :
        st.name = name).number_format

\* The sheet-addition events of the last export.
Added == {k \in 1..Len(log) : log[k].op = "add_sheet"}

\* C5: after a successful export, every data cell (rows 2..len(df)+1) of
\* every sheet carries the number format of the style the name of its
\* column resolves to, and the call added one sheet per table.
C5_DataCellsFormatted ==
    (Export /\ exc = "") =>
       /\ \A k \in Added :
             LET sheet == wb.sheets[log[k].sheet]
                 df == log[k].df
             IN \A j \in 1..Len(df.columns), r \in 2..(len(df) + 1) :
                   NumberFormatOf(wb, sheet.cells[<<r, j>>].style)
                      = NumberFormatOf(wb, cfg_style_name(df.columns[j]))
       /\ Len(wb.sheets) = Len(call.before.sheets) + Cardinality(Added)

\* The content length the width is claimed to come from: only an empty or
\* absent value counts as 0.
ContentLen(v) == IF v = None \/ v = PyStr("") THEN 0 ELSE StrLen(v)

AutoAdjustEnabled ==
    Get(LookupOrEmpty(cfg.visual, "auto_adjust_style"), "auto_adjust_width", FALSE)

MaxColumnWidth ==
    Get(LookupOrEmpty(cfg.visual, "auto_adjust_style"), "max_column_width", 60)

ColumnValues(sheet, col) ==
    {sheet.cells[p].value : p \in {q \in DOMAIN sheet.cells : q[2] = col}}

\* C6: with auto-sizing enabled, auto_adjust_cols gives every column that
\* has a non-empty cell the width min(L + 8, max), L being the longest
\* stringified value of the column, False and 0 counted at their length.
C6_WidthFromContent ==
    (call.op = "auto_adjust_cols" /\ AutoAdjustEnabled) =>
       \A col \in Columns(wb.sheets[1]) :
          LET values == ColumnValues(wb.sheets[1], col)
          IN (\E v \in values : ContentLen(v) > 0) =>
                wb.sheets[1].widths[column_letter(col)]
                   = Min(SetMax({ContentLen(v) : v \in values}) + 8, MaxColumnWidth)

\* C7: with auto-sizing enabled, auto_adjust_cols gives a column all of
\* whose cells are empty the width min(5 + 8, max).
C7_EmptyColumnWidth ==
    (call.op = "auto_adjust_cols" /\ AutoAdjustEnabled) =>
       \A col \in Columns(wb.sheets[1]) :
          (\A v \in ColumnValues(wb.sheets[1], col) : ContentLen(v) = 0) =>
             wb.sheets[1].widths[column_letter(col)] = Min(5 + 8, MaxColumnWidth)

\* What the last construction built from the catalogs.
Built == build_bulk_named_style(cfg)

\* C8: the sequence a construction builds holds no two definitions of the
\* same name, and lists the visual catalog's keys before the data-type
\* catalog's.
C8_BuildDistinct ==
    writer # "none" =>
       /\ \A i, j \in 1..Len(Built) :
             (i # j /\ ~Built[i].none /\ ~Built[j].none) => Built[i].name # Built[j].name
       /\ Len(Built) = Len(cfg.visual.keys) + Len(cfg.dataType.keys)
       /\ \A i \in 1..Len(Built) :
             ~Built[i].none =>
                Built[i].name = (cfg.visual.keys \o cfg.dataType.keys)[i]

\* The keys of a catalog whose entry is falsy.
FalsyKeys(catalog) ==
    {i \in 1..Len(catalog.keys) : Falsy(Lookup(catalog, catalog.keys[i]))}

\* C9: a construction from catalogs with a falsy entry builds no element
\* for it, one for every other entry, and does not fail.
C9_FalsyEntrySkipped ==
    (/\ call.op = "ExcelWriter"
     /\ FalsyKeys(cfg.visual) \cup FalsyKeys(cfg.dataType) # {}) =>
       /\ \A i \in 1..Len(Built) : ~Built[i].none
       /\ Len(Built) = Len(cfg.visual.keys) + Len(cfg.dataType.keys)
                          - Cardinality(FalsyKeys(cfg.visual))
                          - Cardinality(FalsyKeys(cfg.dataType))
       /\ exc = "" /\ writer = "ready"

Construction == call.op \in {"ExcelWriter", "SetSheetFormatter"}

\* Position i of a built sequence holds a definition whose name the
\* workbook of the call already registered, or an earlier position holds.
Clash(built, i) ==
    /\ ~built[i].none
    /\ built[i].name \in Names(call.before.named_styles)
                          \cup {built[j].name : j \in {n \in 1..(i - 1) : ~built[n].none}}

\* C10: a construction that meets a name already registered raises the
\* registration error to its caller; the definitions before the first such
\* name are registered and none after it; no sheet is created or written,
\* and a writer whose construction failed this way has no sheet at all.
C10_DuplicateRegistrationFails ==
    Construction =>
       \A built \in {Built} : \A i \in 1..Len(built) :
          (Clash(built, i)
             /\ \A j \in 1..(i - 1) : ~built[j].none /\ ~Clash(built, j)) =>
             /\ exc = "ValueError"
             /\ wb.named_styles = call.before.named_styles \o SubSeq(built, 1, i - 1)
             /\ wb.sheets = call.before.sheets
             /\ log = <<>>
             /\ call.op = "ExcelWriter" => writer = "failed" /\ wb.sheets = <<>>

\* Witness of C10: a writer whose catalogs share a name failed in its
\* construction after registering the definitions before the repeated one.
C10_Witness ==
    /\ call.op = "ExcelWriter"
    /\ writer = "failed" /\ exc = "ValueError"
    /\ Len(wb.named_styles) > Len(cfg.visual.keys)
    /\ Len(wb.named_styles) < 1 + Len(Built)
    /\ wb.sheets = <<>> /\ disk = <<>>

\* The toggle of a cosmetic step is false or missing in the catalogs.
ToggleOff(style, toggle) ==
    LET entry == LookupOrEmpty(cfg.visual, style)
    IN ~GetRaises(entry) /\ ~Get(entry, toggle, FALSE)

\* The cosmetic method the last call ran had its toggle off.
DisabledCall ==
    \/ call.op = "set_filter_mode" /\ ToggleOff("filter_style", "mode_on")
    \/ call.op = "auto_adjust_cols" /\ ToggleOff("auto_adjust_style", "auto_adjust_width")
    \/ call.op = "set_freeze_panes_style" /\ ToggleOff("freeze_panes_style", "mode_on")

\* C11: a cosmetic step whose toggle is false or missing leaves the whole
\* sheet as it was, with no filter range, no column width and no freeze
\* anchor set, and neither raises nor logs a failure.
C11_DisabledStepIsNoOp ==
    DisabledCall =>
       /\ wb.sheets[1] = call.before
       /\ wb.sheets[1].auto_filter_ref = "None"
       /\ wb.sheets[1].widths = <<>>
       /\ wb.sheets[1].freeze_panes = "None"
       /\ ~call.failed /\ exc = ""

\* Witness of C11: the filter step ran with its configuration missing on a
\* sheet that holds cells.
C11_Witness ==
    /\ call.op = "set_filter_mode"
    /\ "filter_style" \notin DOMAIN cfg.visual.val
    /\ DisabledCall
    /\ DOMAIN wb.sheets[1].cells # {}

\* C12: export_pipeline with an empty file_name raises ConfigError with no
\* sheet added, no formatting step run, no save invoked and nothing
\* persisted: workbook, log and disk are as before the call.
C12_EmptyFileNameRejected ==
    (Export /\ call.file_name = "") =>
       /\ exc = "ConfigError"
       /\ wb = call.before
       /\ log = <<>>
       /\ disk = call.disk

\* Witness of C12: the call was given tables, on a workbook that already
\* held a sheet.
C12_Witness ==
    /\ Export /\ call.file_name = ""
    /\ call.dfs # <<>>
    /\ call.before.sheets # <<>>
    /\ exc = "ConfigError"

\* The invocations of save in the last export.
Saves == {k \in 1..Len(log) : log[k].op = "save"}

\* The pipeline of the sheet added at position a of the log returned: its
\* five steps are in the log, the structural ones succeeded.
PipelineReturned(a) ==
    /\ a + 5 <= Len(log)
    /\ log[a + 1].op = "header_body" /\ log[a + 1].ok
    /\ log[a + 2].op = "type" /\ log[a + 2].ok
    /\ CosmeticAfter(a + 2)

\* Adding or formatting a sheet raised in the last export.
SheetRaised ==
    \/ exc = "IndexError"
    \/ \E k \in 1..Len(log) :
          log[k].op \in StructuralOps \cup {"add_sheet"} /\ ~log[k].ok

\* C13: an export invokes save at most once, as its last step, after a
\* sheet was added for every table and the pipeline of each returned; it
\* invokes save once when file_name is given and no sheet raised, and never
\* when one did; nothing is persisted without save.
C13_SavedOnceAtEnd ==
    Export =>
       /\ Cardinality(Saves) <= 1
       /\ \A k \in Saves :
             /\ k = Len(log)
             /\ Cardinality(Added) = Len(call.dfs)
             /\ \A a \in Added : log[a].ok /\ PipelineReturned(a)
       /\ (call.file_name # "" /\ ~SheetRaised) => Cardinality(Saves) = 1
       /\ SheetRaised => Saves = {}
       /\ Saves = {} => disk = call.disk

\* Witness of C13: two tables were exported, with one save at the end.
C13_Witness ==
    /\ Export
    /\ Len(call.dfs) = 2
    /\ Saves = {Len(log)} /\ log[Len(log)].ok
    /\ Cardinality(Added) = 2
    /\ disk = wb.sheets /\ disk # call.disk

\* C14: reading a file that holds a table succeeds exactly when the required
\* columns are all among the table's columns (always, when none is
\* required); otherwise it fails with ValidationError, reporting the sorted
\* required columns the table lacks and the sorted columns of the table.
C14_ColumnValidation ==
    (call.op = "read" /\ call.reader.file.state = "ok") =>
       LET required == set(call.reader.required_columns)
           available == set(call.reader.file.df.columns)
       IN /\ call.returned <=> required \subseteq available
          /\ call.returned => exc = "" /\ log = <<>>
          /\ ~call.returned =>
                /\ exc = "ValidationError"
                /\ Len(log) = 1
                /\ set(log[1].missing) = required \ available
                /\ log[1].missing = sorted(required \ available).lst
                /\ set(log[1].available) = available
                /\ log[1].available = sorted(available).lst

\* The steps of the pipeline in their order.
Steps == <<"header_body", "type", "filter", "width", "freeze">>

\* C15: the steps a run of the pipeline entered are an initial segment of
\* header/body, type, filter, width, freeze, each once and in this order;
\* the segment is whole when the run returned, and ends with the structural
\* step that failed when it raised.
C15_StepsInOrder ==
    call.op = "run_pipeline" =>
       LET run == SubSeq(log, 2, Len(log))
       IN /\ Len(run) \in 1..Len(Steps)
          /\ \A k \in 1..Len(run) : run[k].op = Steps[k] /\ run[k].sheet = 1
          /\ \A k \in 1..(Len(run) - 1) : run[k].op \in StructuralOps => run[k].ok
          /\ Len(run) = Len(Steps) <=> exc = ""
          /\ Len(run) < Len(Steps) =>
                run[Len(run)].op \in StructuralOps /\ ~run[Len(run)].ok

\* Witness of C15: a run went through the five steps and each left its
\* mark on the sheet.
C15_Witness ==
    /\ call.op = "run_pipeline" /\ exc = ""
    /\ Len(log) = 1 + Len(Steps)
    /\ Styled(wb.sheets[1], "header_style") # {}
    /\ Styled(wb.sheets[1], cfg_style_name("number_decimal")) # {}
    /\ wb.sheets[1].auto_filter_ref # "None"
    /\ wb.sheets[1].widths # <<>>
    /\ wb.sheets[1].freeze_panes # "None"

\* The last call was the type-based styling of the sheet.
TypeCall == call.op = "format_style_base_on_data_type"

\* The data cells of the listed columns: rows 2..num_rows + 1.
DataBlock == (2..(call.num_rows + 1)) \X (1..Len(call.column_name_lst))

\* C16: format_style_base_on_data_type(ws, column_name_lst, num_rows) with
\* num_rows >= 0 gives every data cell (r, i), 2 <= r <= num_rows + 1, of
\* the i-th listed column the style resolved from that column's name, and
\* leaves row 1 and every cell outside the listed columns as it was; with
\* num_rows = 0 the sheet is unchanged.
C16_TypeStylesByPosition ==
    (TypeCall /\ call.num_rows >= 0) =>
       LET sheet == wb.sheets[1]
       IN /\ exc = ""
          /\ DOMAIN sheet.cells = DOMAIN call.before.cells \cup DataBlock
          /\ \A p \in DataBlock :
                sheet.cells[p].style = cfg_style_name(call.column_name_lst[p[2]])
          /\ \A p \in DOMAIN sheet.cells \ DataBlock : sheet.cells[p] = call.before.cells[p]
          /\ \A p \in DOMAIN call.before.cells :
                sheet.cells[p].value = call.before.cells[p].value
          /\ call.num_rows = 0 => sheet = call.before

\* C17: format_style_header_body with num_rows < 1 or num_cols < 1 raises
\* its validation error (ValueError) and leaves the sheet as it was; so
\* run_pipeline on a table without columns raises at its first step with
\* the sheet unchanged, and on a table with columns and no data row returns.
C17_EmptyRangeRejected ==
    /\ (/\ call.op = "format_style_header_body"
        /\ (call.num_rows < 1 \/ call.num_cols < 1)) =>
          exc = "ValueError" /\ wb.sheets[1] = call.before
    /\ (call.op = "run_pipeline" /\ Table.columns = <<>>) =>
          /\ exc = "ValueError"
          /\ wb.sheets[1] = call.before
          /\ SubSeq(log, 2, Len(log)) = At(1, <<Event("header_body", FALSE)>>)
    /\ (call.op = "run_pipeline" /\ Table.columns # <<>> /\ Table.rows = <<>>) =>
          /\ exc = ""
          /\ Styled(wb.sheets[1], "header_style") = {1} \X (1..Len(Table.columns))

\* Witness of C17: the header/body styling of a written sheet was called
\* for zero rows and at least one column.
C17_Witness ==
    /\ call.op = "format_style_header_body"
    /\ call.num_rows = 0 /\ call.num_cols >= 1
    /\ exc = "ValueError"
    /\ DOMAIN wb.sheets[1].cells # {}

\* C18: format_style_base_on_data_type with a negative num_rows raises its
\* validation error (ValueError) and leaves the sheet as it was, whatever
\* the column list, empty or not; with an empty column list and
\* num_rows >= 0 it returns and leaves the sheet as it was.
C18_NegativeRowCountRejected ==
    /\ (TypeCall /\ call.num_rows < 0) =>
          exc = "ValueError" /\ wb.sheets[1] = call.before
    /\ (TypeCall /\ call.column_name_lst = <<>> /\ call.num_rows >= 0) =>
          exc = "" /\ wb.sheets[1] = call.before

\* The name the i-th table's sheet is to carry: the i-th supplied name, or
\* the generated one when none is supplied for it.
ExpectedName(i) ==
    IF call.sheet_name.given /\ i <= Len(call.sheet_name.names)
    THEN call.sheet_name.names[i] ELSE "Sheet" \o ToString(i)

\* The sheet holds the labels of df in row 1 and its rows from row 2 on.
Holds(sheet, df) ==
    /\ \A j \in 1..Len(df.columns) : sheet.cells[<<1, j>>].value = PyStr(df.columns[j])
    /\ \A r \in 1..len(df), j \in 1..Len(df.columns) :
          sheet.cells[<<r + 1, j>>].value = df.rows[r][j]

\* A name to be carried is the title of a sheet of the workbook already, or
\* the name of an earlier table of the call.
NameTaken ==
    \E i \in 1..Len(call.dfs) :
       ExpectedName(i) \in Titles(call.before) \cup {ExpectedName(j) : j \in 1..(i - 1)}

\* C19: an export, given a file name and n tables that each have a column,
\* appends n sheets to the workbook in table order, the i-th carrying the
\* i-th supplied name, or Sheet{i} counted from 1 when none is supplied
\* for it (no such name being taken already), and holding the table's
\* header row and rows.
C19_OneNamedSheetPerTable ==
    (/\ Export /\ call.file_name # "" /\ ~NameTaken
     /\ \A i \in 1..Len(call.dfs) : call.dfs[i].columns # <<>>) =>
       LET base == Len(call.before.sheets)
       IN /\ Len(wb.sheets) = base + Len(call.dfs)
          /\ \A i \in 1..Len(call.dfs) :
                /\ wb.sheets[base + i].title = ExpectedName(i)
                /\ Holds(wb.sheets[base + i], call.dfs[i])

\* No label occurs twice in the list.
UniqueNames(column_name_lst) ==
    \A i, j \in 1..Len(column_name_lst) :
       i # j => column_name_lst[i] # column_name_lst[j]

\* C20: after a run of the pipeline that returned, on a table with at least
\* one column and no repeated label, the cells of row 1 carry header_style,
\* every data cell carries the style resolved from the label of its column,
\* and no cell of the sheet carries body_style.
C20_FinalStyles ==
    (/\ call.op = "run_pipeline" /\ exc = ""
     /\ Table.columns # <<>> /\ UniqueNames(Table.columns)) =>
       LET sheet == wb.sheets[1]
       IN /\ DOMAIN sheet.cells = (1..(len(Table) + 1)) \X (1..Len(Table.columns))
          /\ \A p \in DOMAIN sheet.cells :
                sheet.cells[p].style = IF p[1] = 1 THEN "header_style"
                                       ELSE cfg_style_name(Table.columns[p[2]])
          /\ Styled(sheet, "body_style") = {}

\* Witness of C20: a table with two differently resolved columns and a
\* data row went through the pipeline.
C20_Witness ==
    /\ call.op = "run_pipeline" /\ exc = ""
    /\ Len(Table.columns) = 2 /\ len(Table) = 1
    /\ cfg_style_name(Table.columns[1]) # cfg_style_name(Table.columns[2])
    /\ wb.sheets[1].cells[<<2, 1>>].style = cfg_style_name(Table.columns[1])
    /\ wb.sheets[1].cells[<<2, 2>>].style = cfg_style_name(Table.columns[2])

\* The positions of a list whose name occurs at an earlier position too.
Later(column_name_lst) ==
    {j \in 1..Len(column_name_lst) :
        \E i \in 1..(j - 1) : column_name_lst[i] = column_name_lst[j]}

SheetsKept ==
    /\ Len(wb.sheets) <= Len(wb'.sheets)
    /\ \A i \in 1..Len(wb.sheets) :
          /\ wb'.sheets[i].title = wb.sheets[i].title
          /\ \A p \in DOMAIN wb.sheets[i].cells :
                /\ p \in DOMAIN wb'.sheets[i].cells
                /\ wb'.sheets[i].cells[p] = wb.sheets[i].cells[p]

\* The step is an export that returned.
Exported == call'.op = "export_pipeline" /\ exc' = "" /\ call'.before = wb

\* C22: no call removes, replaces or resets a sheet of the writer's
\* workbook; every export that returns has saved once, at its end, a
\* document holding all the sheets of the workbook, those of earlier calls
\* (returned or aborted) included; and the document changes only so.
C22_WorkbookOnlyGrows ==
    [][/\ SheetsKept
       /\ Exported =>
             /\ disk' = wb'.sheets
             /\ Len(disk') >= Len(wb.sheets)
             /\ Cardinality({k \in 1..Len(log') : log'[k].op = "save"}) = 1
             /\ log'[Len(log')] = Event("save", TRUE)
       /\ disk' # disk => Exported]_vars

\* Witness of C22: an export on a writer that had saved a document before
\* saved one that holds the earlier sheets and a new one.
C22_Witness ==
    /\ Export /\ exc = ""
    /\ call.disk # <<>>
    /\ Len(call.before.sheets) > 0
    /\ Len(wb.sheets) > Len(call.before.sheets)
    /\ disk = wb.sheets
    /\ SubSeq(disk, 1, Len(call.disk)) = call.disk

====
